---------------------------- MODULE Spec2Model ----------------------------
(***************************************************************************)
(* baus (src/src/main.rs): a line sorter that ranks the lines of standard  *)
(* input by a score kept in a cache file, or records a use of the first    *)
(* line.  One invocation of the program is a process that walks through    *)
(* main(): get_lines_backup (initialise the file when absent, load it),    *)
(* get_stdin_lines, then sort (rank, optionally reverse, optionally        *)
(* cleanup) or save (update_first_stdin_line, backup_lines), then print.   *)
(*                                                                         *)
(* Strings are sequences of one-character strings, so that trim_newline    *)
(* and the JSON text of the cache file are computed character by           *)
(* character.  The cache file is a byte sequence: File::create truncates   *)
(* it, write_all writes from offset 0, load_lines parses what is there.    *)
(***************************************************************************)
EXTENDS Integers, Sequences, FiniteSets, TLC

\* ------------------------------------------------------------------ bounds

\* Longest input (number of lines read from standard input) of an invocation.
MaxLines == 2

\* Longest input of a direct call of sort or save.
MaxCallLines == 3

\* Longest input of each of two invocations that run at once.
MaxRaceLines == 1

\* Largest usage count the model lets Save/Count reach (the i64 counter is
\* unbounded in practice; the guard of GetStdinLines caps it).
MaxCount == 2

\* ------------------------------------------------------------- characters

LF == "\n"
CR == "\r"
Quote == "\""

DigitChars == <<"0", "1", "2", "3", "4", "5", "6", "7", "8", "9">>

\* The line texts the inputs are built from (different lengths, so that two
\* stores with as many entries need not serialise to as many bytes).
Texts == {<<"a">>, <<"b", "b">>}

\* Lines as get_stdin_lines returns them: BufRead::lines strips the "\n" or
\* "\r\n" that ends a line, so no line of standard input carries one.
StdinLines == Texts

\* Lines as a direct caller of update_first_stdin_line may pass them (the
\* function trims a terminator itself): with "\n", with "\r\n", or without.
CallLines == Texts \cup {t \o <<LF>> : t \in Texts} \cup {t \o <<CR, LF>> : t \in Texts}

\* The line texts of a direct call of sort: one more, so that two tied lines
\* and a line of another score meet in one input.
RankTexts == Texts \cup {<<"c">>}

\* All sequences over S of length 0..n.
SeqsUpTo(S, n) == UNION {[1..k -> S] : k \in 0..n}

Range(s) == {s[i] : i \in DOMAIN s}

Reverse(s) == [i \in 1..Len(s) |-> s[Len(s) + 1 - i]]

\* ------------------------------------------------------------ score store

\* HashMap::new()
EmptyMap == [k \in {} |-> 0]

\* HashMap::insert
MapInsert(m, k, v) == [x \in (DOMAIN m) \cup {k} |-> IF x = k THEN v ELSE m[x]]

\* get_value: the stored score, 0 for an absent key.
get_value(lines_backup, key) ==
    IF key \in DOMAIN lines_backup THEN lines_backup[key] ELSE 0

\* trim_newline: drop one trailing "\n", and a "\r" right before it.
trim_newline(s) ==
    IF Len(s) > 0 /\ s[Len(s)] = LF
    THEN LET t == SubSeq(s, 1, Len(s) - 1)
         IN  IF Len(t) > 0 /\ t[Len(t)] = CR THEN SubSeq(t, 1, Len(t) - 1) ELSE t
    ELSE s


\* retain that evicts nothing.
retain_all(lines_backup, lines) == lines_backup

\* lines_backup.retain(|k, _| lines.contains(&k))
retain(lines_backup, lines) ==
    [k \in (DOMAIN lines_backup) \cap Range(lines) |-> lines_backup[k]]

\* insert_missing without the contains_key test: every retained line restarts at 0.
RECURSIVE insert_missing_reset(_, _, _)
insert_missing_reset(lines_backup, lines, i) ==
    IF i > Len(lines) THEN lines_backup
    ELSE insert_missing_reset(MapInsert(lines_backup, lines[i], 0), lines, i + 1)

\* for line in lines { if !contains_key(line) { insert(line, 0) } }, from the
\* i-th line on.
RECURSIVE insert_missing(_, _, _)
insert_missing(lines_backup, lines, i) ==
    IF i > Len(lines) THEN lines_backup
    ELSE insert_missing(
             IF lines[i] \in DOMAIN lines_backup THEN lines_backup
             ELSE MapInsert(lines_backup, lines[i], 0),
             lines, i + 1)

\* The in-memory part of cleanup: evict what is not retained, add the rest at 0.
cleanup_map(lines_backup, lines) ==
    insert_missing(retain(lines_backup, lines), lines, 1)

\* ---------------------------------------------------------------- ranking

\* InsertSorted with the comparison turned strict: x goes in front of the
\* elements it ties with.
InsertSortedBeforeTies(sorted, x, lines_backup) ==
    LET n == Cardinality({i \in 1..Len(sorted) :
                 get_value(lines_backup, sorted[i]) < get_value(lines_backup, x)})
    IN  SubSeq(sorted, 1, n) \o <<x>> \o SubSeq(sorted, n + 1, Len(sorted))

\* One insertion of the stable sort: x goes behind every element that does
\* not compare greater than it (partial_cmp on the two scores).
InsertSorted(sorted, x, lines_backup) ==
    LET n == Cardinality({i \in 1..Len(sorted) :
                 get_value(lines_backup, sorted[i]) <= get_value(lines_backup, x)})
    IN  SubSeq(sorted, 1, n) \o <<x>> \o SubSeq(sorted, n + 1, Len(sorted))

RECURSIVE SortPrefix(_, _, _)
SortPrefix(lines, lines_backup, k) ==
    IF k = 0 THEN <<>>
    ELSE InsertSorted(SortPrefix(lines, lines_backup, k - 1), lines[k], lines_backup)

\* get_asc_sorted_lines: Vec::sort_by, a stable sort, on the scores.
get_asc_sorted_lines(lines, lines_backup) ==
    SortPrefix(lines, lines_backup, Len(lines))

\* ------------------------------------------------- the cache file's text

IsDigit(c) == \E d \in 1..10 : DigitChars[d] = c

DigitValue(c) == (CHOOSE d \in 1..10 : DigitChars[d] = c) - 1

\* The decimal text of an i64.
RECURSIVE IntToChars(_)
IntToChars(n) ==
    IF n < 0 THEN <<"-">> \o IntToChars(0 - n)
    ELSE IF n < 10 THEN <<DigitChars[n + 1]>>
    ELSE IntToChars(n \div 10) \o <<DigitChars[(n % 10) + 1]>>

\* CharsToInt that keeps the last digit only.
CharsToIntLastDigit(s) == DigitValue(s[Len(s)])

\* The value of a run of digits.
RECURSIVE CharsToInt(_)
CharsToInt(s) ==
    IF Len(s) = 0 THEN 0
    ELSE 10 * CharsToInt(SubSeq(s, 1, Len(s) - 1)) + DigitValue(s[Len(s)])

\* The orders a HashMap may iterate its keys in (the hasher is seeded at
\* random in every process).
KeyOrders(S) ==
    {o \in [1..Cardinality(S) -> S] : \A i, j \in DOMAIN o : i # j => o[i] # o[j]}

RECURSIVE EntriesText(_, _, _)
EntriesText(lines_backup, order, i) ==
    IF i > Len(order) THEN <<>>
    ELSE (IF i > 1 THEN <<",">> ELSE <<>>)
         \o <<Quote>> \o order[i] \o <<Quote, ":">> \o IntToChars(lines_backup[order[i]])
         \o EntriesText(lines_backup, order, i + 1)

\* json::to_string(&lines_backup), the keys iterated in `order` (the line
\* texts of the model hold no character JSON escapes).
to_string(lines_backup, order) ==
    <<"{">> \o EntriesText(lines_backup, order, 1) \o <<"}">>

\* The least position >= i of s that holds c, 0 when there is none.
FindFrom(s, i, c) ==
    LET J == {j \in i..Len(s) : s[j] = c}
    IN  IF J = {} THEN 0 ELSE CHOOSE j \in J : \A k \in J : j <= k

\* The least position >= i of s that holds no digit (Len(s) + 1 at the end).
DigitsEnd(s, i) ==
    LET J == {j \in i..Len(s) : ~IsDigit(s[j])}
    IN  IF J = {} THEN Len(s) + 1 ELSE CHOOSE j \in J : \A k \in J : j <= k

ParseError == [ok |-> FALSE, map |-> EmptyMap]

\* The entries of an object from position i on, which must hold the quote
\* that opens a key; m is what was parsed so far.  A repeated key keeps its
\* last value; anything after the closing brace is an error.
RECURSIVE ParseEntries(_, _, _)
ParseEntries(s, i, m) ==
    IF i > Len(s) \/ s[i] # Quote THEN ParseError
    ELSE LET j == FindFrom(s, i + 1, Quote)
         IN  IF j = 0 \/ j + 1 > Len(s) \/ s[j + 1] # ":" THEN ParseError
             ELSE LET neg == j + 2 <= Len(s) /\ s[j + 2] = "-"
                      d0  == IF neg THEN j + 3 ELSE j + 2
                      k   == DigitsEnd(s, d0)
                      abs == CharsToInt(SubSeq(s, d0, k - 1))
                      m2  == MapInsert(m, SubSeq(s, i + 1, j - 1),
                                       IF neg THEN 0 - abs ELSE abs)
                  IN  IF k = d0 \/ k > Len(s) THEN ParseError
                      ELSE IF s[k] = "," THEN ParseEntries(s, k + 1, m2)
                      ELSE IF s[k] = "}" /\ k = Len(s) THEN [ok |-> TRUE, map |-> m2]
                      ELSE ParseError

\* json::from_str::<HashMap<String, i64>>: an object of string keys and
\* integer values, or a format error.
from_str(s) ==
    IF Len(s) < 2 \/ s[1] # "{" THEN ParseError
    ELSE IF s[2] = "}"
         THEN (IF Len(s) = 2 THEN [ok |-> TRUE, map |-> EmptyMap] ELSE ParseError)
         ELSE ParseEntries(s, 2, EmptyMap)

\* A write of `data` at offset 0 of a file holding `old`: what lay behind the
\* written bytes stays.
Overlay(old, data) == data \o SubSeq(old, Len(data) + 1, Len(old))

\* ------------------------------------------------------------------ state

\* Two invocations at most are alive at a time.
Procs == {1, 2}

VARIABLES
    file,          \* the cache file: [exists, bytes]
    pc,            \* pc[p]: where invocation p is in main()
    args,          \* args[p]: the parsed command line (struct Args)
    caller,        \* caller[p]: who called backup_lines: "init", "cleanup", "save"
    lines,         \* lines[p]: the lines read from stdin, ranked in place by sort
    lines_backup,  \* lines_backup[p]: the score store in memory
    output_lines,  \* output_lines[p]: what sort or save returned
    stdout,        \* stdout[p]: the lines printed
    start,         \* history: the cache file as invocation p found it
    loaded,        \* history: the store load_lines returned to p
    input,         \* history: the lines as get_stdin_lines returned them to p
    written,       \* history: the stores p's backup_lines calls wrote, in order
    last_write,    \* history: the latest write_all: who, which store, which bytes, onto what
    uses           \* history: Save/Count uses of each line since its last eviction

vars == <<file, pc, args, caller, lines, lines_backup, output_lines, stdout,
          start, loaded, input, written, last_write, uses>>

Actions == {"Sort", "Save"}
SavedValues == {"Timestamp", "Count"}

\* struct Args without the name (one cache file is modelled).
AllArgs == [action : Actions, value : SavedValues, desc : BOOLEAN, cleanup : BOOLEAN]

\* The command lines that never record a timestamp.
CountArgs == {a \in AllArgs : a.action = "Save" => a.value = "Count"}

\* SystemTime::now() in seconds since the epoch, when the clock is sane.
Clock == {10, 11}

NoArgs == [action |-> "Sort", value |-> "Count", desc |-> FALSE, cleanup |-> FALSE]
NoFile == [exists |-> FALSE, bytes |-> <<>>]
NoWrite == [by |-> 0, map |-> EmptyMap, bytes |-> <<>>, onto |-> <<>>]

\* No invocation is running and the cache file does not exist yet.
Init ==
    /\ file = NoFile
    /\ pc = [p \in Procs |-> "idle"]
    /\ args = [p \in Procs |-> NoArgs]
    /\ caller = [p \in Procs |-> "none"]
    /\ lines = [p \in Procs |-> <<>>]
    /\ lines_backup = [p \in Procs |-> EmptyMap]
    /\ output_lines = [p \in Procs |-> <<>>]
    /\ stdout = [p \in Procs |-> <<>>]
    /\ start = [p \in Procs |-> NoFile]
    /\ loaded = [p \in Procs |-> EmptyMap]
    /\ input = [p \in Procs |-> <<>>]
    /\ written = [p \in Procs |-> <<>>]
    /\ last_write = NoWrite
    /\ uses = EmptyMap

\* ---------------------------------------------------------------- actions

\* main starts: Args::parse() yields one of the command lines in A;
\* lines_backup is the HashMap::new() of get_lines_backup.
Start(p, A) ==
    /\ pc[p] = "idle"
    /\ \E a \in A : args' = [args EXCEPT ![p] = a]
    /\ pc' = [pc EXCEPT ![p] = "exists"]
    /\ start' = [start EXCEPT ![p] = file]
    /\ UNCHANGED <<file, caller, lines, lines_backup, output_lines, stdout,
                   loaded, input, written, last_write, uses>>

\* get_lines_backup: an absent file is first written from the empty store.
get_lines_backup(p) ==
    /\ pc[p] = "exists"
    /\ IF file.exists
       THEN /\ pc' = [pc EXCEPT ![p] = "load"]
            /\ UNCHANGED caller
       ELSE /\ pc' = [pc EXCEPT ![p] = "create"]
            /\ caller' = [caller EXCEPT ![p] = "init"]
    /\ UNCHANGED <<file, args, lines, lines_backup, output_lines, stdout,
                   start, loaded, input, written, last_write, uses>>

\* File_create without truncation: what the file held stays.
File_create_keeps_bytes(p) ==
    /\ pc[p] = "create"
    /\ file' = [exists |-> TRUE, bytes |-> file.bytes]
    /\ pc' = [pc EXCEPT ![p] = "write"]
    /\ UNCHANGED <<args, caller, lines, lines_backup, output_lines, stdout,
                   start, loaded, input, written, last_write, uses>>

\* backup_lines, File::create: the file exists and is empty from here on.
File_create(p) ==
    /\ pc[p] = "create"
    /\ file' = [exists |-> TRUE, bytes |-> <<>>]
    /\ pc' = [pc EXCEPT ![p] = "write"]
    /\ UNCHANGED <<args, caller, lines, lines_backup, output_lines, stdout,
                   start, loaded, input, written, last_write, uses>>

\* The history of uses once invocation p has persisted: a Save/Count is one
\* more use of its first input line; a cleanup evicts the lines it does not
\* retain, whose uses start over.
uses_after(p) ==
    IF caller[p] = "save" /\ args[p].value = "Count" /\ input[p] # <<>>
    THEN MapInsert(uses, input[p][1], get_value(uses, input[p][1]) + 1)
    ELSE IF caller[p] = "cleanup"
    THEN [k \in (DOMAIN uses) \cap Range(lines[p]) |-> uses[k]]
    ELSE uses

\* backup_lines, write_all of the store's JSON text from offset 0; then the
\* caller goes on: get_lines_backup loads, cleanup returns to sort, which
\* returns the ranked lines, save returns its output lines.
write_all(p) ==
    /\ pc[p] = "write"
    /\ \E order \in KeyOrders(DOMAIN lines_backup[p]) :
          LET data == to_string(lines_backup[p], order)
          IN  /\ file' = [exists |-> TRUE, bytes |-> Overlay(file.bytes, data)]
              /\ last_write' = [by |-> p, map |-> lines_backup[p],
                                bytes |-> data, onto |-> file.bytes]
    /\ written' = [written EXCEPT ![p] = Append(@, lines_backup[p])]
    /\ pc' = [pc EXCEPT ![p] = IF caller[p] = "init" THEN "load" ELSE "print"]
    /\ output_lines' = [output_lines EXCEPT
                           ![p] = IF caller[p] = "cleanup" THEN lines[p] ELSE @]
    /\ uses' = uses_after(p)
    /\ UNCHANGED <<args, caller, lines, lines_backup, stdout,
                   start, loaded, input>>

\* load_lines: read the whole file and parse it; a format error ends main.
load_lines(p) ==
    /\ pc[p] = "load"
    /\ LET r == from_str(file.bytes)
       IN  IF file.exists /\ r.ok
           THEN /\ lines_backup' = [lines_backup EXCEPT ![p] = r.map]
                /\ loaded' = [loaded EXCEPT ![p] = r.map]
                /\ pc' = [pc EXCEPT ![p] = "stdin"]
           ELSE /\ pc' = [pc EXCEPT ![p] = "failed"]
                /\ UNCHANGED <<lines_backup, loaded>>
    /\ UNCHANGED <<file, args, caller, lines, output_lines, stdout,
                   start, input, written, last_write, uses>>

\* get_stdin_lines: all of standard input, at most n lines over L.
\* A Save/Count of a line that already has MaxCount uses is left out.
get_stdin_lines(p, L, n) ==
    /\ pc[p] = "stdin"
    /\ \E ls \in SeqsUpTo(L, n) :
          /\ (args[p].action = "Save" /\ args[p].value = "Count" /\ ls # <<>>)
                => get_value(lines_backup[p], trim_newline(ls[1])) < MaxCount
          /\ lines' = [lines EXCEPT ![p] = ls]
          /\ input' = [input EXCEPT ![p] = ls]
    /\ pc' = [pc EXCEPT ![p] = IF args[p].action = "Sort" THEN "sort" ELSE "save"]
    /\ UNCHANGED <<file, args, caller, lines_backup, output_lines, stdout,
                   start, loaded, written, last_write, uses>>

\* ranked with a descending sort that keeps ties in input order.
ranked_descending_stable(desc, ls, lb) ==
    IF desc THEN Reverse(get_asc_sorted_lines(Reverse(ls), lb))
    ELSE get_asc_sorted_lines(ls, lb)

\* The ranked lines of sort: ascending, reversed when --desc is given.
ranked(desc, ls, lb) ==
    IF desc THEN Reverse(get_asc_sorted_lines(ls, lb)) ELSE get_asc_sorted_lines(ls, lb)

\* if args.cleanup, with the test lost.
runs_cleanup_always(a) == TRUE

\* if args.cleanup { cleanup(...) }
runs_cleanup(a) == a.cleanup

\* sort, up to the call of cleanup or, without --cleanup, to its return.
sort(p) ==
    /\ pc[p] = "sort"
    /\ LET r == ranked(args[p].desc, lines[p], lines_backup[p])
       IN  /\ lines' = [lines EXCEPT ![p] = r]
           /\ IF runs_cleanup(args[p])
              THEN /\ pc' = [pc EXCEPT ![p] = "cleanup"]
                   /\ UNCHANGED output_lines
              ELSE /\ pc' = [pc EXCEPT ![p] = "print"]
                   /\ output_lines' = [output_lines EXCEPT ![p] = r]
    /\ UNCHANGED <<file, args, caller, lines_backup, stdout,
                   start, loaded, input, written, last_write, uses>>

\* cleanup, up to its call of backup_lines.
cleanup(p) ==
    /\ pc[p] = "cleanup"
    /\ lines_backup' = [lines_backup EXCEPT ![p] = cleanup_map(@, lines[p])]
    /\ caller' = [caller EXCEPT ![p] = "cleanup"]
    /\ pc' = [pc EXCEPT ![p] = "create"]
    /\ UNCHANGED <<file, args, lines, output_lines, stdout,
                   start, loaded, input, written, last_write, uses>>

\* new_value that forgets the count so far.
new_value_first_use(saved_value, lb, line, now) ==
    IF saved_value = "Count" THEN 1 ELSE now

\* The score update_first_stdin_line gives the line: its count plus one, or
\* the clock's seconds.
new_value(saved_value, lb, line, now) ==
    IF saved_value = "Count" THEN get_value(lb, line) + 1 ELSE now

\* updated_backup that takes the missing first line for an empty line.
updated_backup_blank_line(saved_value, ls, lb, now) ==
    LET line == IF ls = <<>> THEN <<>> ELSE trim_newline(ls[1])
    IN  MapInsert(lb, line, new_value(saved_value, lb, line, now))

\* update_first_stdin_line on the store: the first line, trimmed, gets its new
\* score; no line, no change.
updated_backup(saved_value, ls, lb, now) ==
    IF ls = <<>> THEN lb
    ELSE LET line == trim_newline(ls[1])
         IN  MapInsert(lb, line, new_value(saved_value, lb, line, now))

\* update_first_stdin_line's result: the trimmed first line, if there is one.
updated_output(ls) ==
    IF ls = <<>> THEN <<>> ELSE <<trim_newline(ls[1])>>

\* save: update_first_stdin_line, up to the call of backup_lines.
update_first_stdin_line(p) ==
    /\ pc[p] = "save"
    /\ \E now \in Clock :
          lines_backup' = [lines_backup EXCEPT ![p] =
                              updated_backup(args[p].value, lines[p], @, now)]
    /\ output_lines' = [output_lines EXCEPT ![p] = updated_output(lines[p])]
    /\ caller' = [caller EXCEPT ![p] = "save"]
    /\ pc' = [pc EXCEPT ![p] = "create"]
    /\ UNCHANGED <<file, args, lines, stdout, start, loaded, input, written,
                   last_write, uses>>

\* main prints the output lines and returns Ok.
print_lines(p) ==
    /\ pc[p] = "print"
    /\ stdout' = [stdout EXCEPT ![p] = output_lines[p]]
    /\ pc' = [pc EXCEPT ![p] = "done"]
    /\ UNCHANGED <<file, args, caller, lines, lines_backup, output_lines,
                   start, loaded, input, written, last_write, uses>>

\* The process is gone; the next invocation starts from nothing but the file.
Exit(p) ==
    /\ pc[p] \in {"done", "failed"}
    /\ pc' = [pc EXCEPT ![p] = "idle"]
    /\ args' = [args EXCEPT ![p] = NoArgs]
    /\ caller' = [caller EXCEPT ![p] = "none"]
    /\ lines' = [lines EXCEPT ![p] = <<>>]
    /\ lines_backup' = [lines_backup EXCEPT ![p] = EmptyMap]
    /\ output_lines' = [output_lines EXCEPT ![p] = <<>>]
    /\ stdout' = [stdout EXCEPT ![p] = <<>>]
    /\ start' = [start EXCEPT ![p] = NoFile]
    /\ loaded' = [loaded EXCEPT ![p] = EmptyMap]
    /\ input' = [input EXCEPT ![p] = <<>>]
    /\ written' = [written EXCEPT ![p] = <<>>]
    /\ UNCHANGED <<file, last_write, uses>>

\* One step of invocation p, with command lines in A and input lines over L.
Step(p, A, L) ==
    \/ Start(p, A)
    \/ get_lines_backup(p)
    \/ File_create(p)
    \/ write_all(p)
    \/ load_lines(p)
    \/ get_stdin_lines(p, L, MaxLines)
    \/ sort(p)
    \/ cleanup(p)
    \/ update_first_stdin_line(p)
    \/ print_lines(p)
    \/ Exit(p)

\* Invocations run one after another, any command line, no I/O failure.
Next == Step(1, AllArgs, StdinLines)

Spec == Init /\ [][Next]_vars

\* Invocations one after another that never record a timestamp.
CountNext == Step(1, CountArgs, StdinLines)

CountSpec == Init /\ [][CountNext]_vars

\* The stores with keys in T and counts up to MaxCount.
Stores(T) == UNION {[K -> 0..MaxCount] : K \in SUBSET T}

\* One of the orders a store's keys may be written in.
AnOrder(m) == CHOOSE o \in KeyOrders(DOMAIN m) : TRUE

\* ------------------------------------------------------------- failures

\* File::create returns an error: backup_lines returns it and main ends.
File_create_fails(p) ==
    /\ pc[p] = "create"
    /\ pc' = [pc EXCEPT ![p] = "failed"]
    /\ UNCHANGED <<file, args, caller, lines, lines_backup, output_lines, stdout,
                   start, loaded, input, written, last_write, uses>>

\* write_all returns an error after k bytes of the text, fewer than all.
write_all_fails(p) ==
    /\ pc[p] = "write"
    /\ \E order \in KeyOrders(DOMAIN lines_backup[p]) :
          LET data == to_string(lines_backup[p], order)
          IN  \E k \in 0..(Len(data) - 1) :
                 file' = [exists |-> TRUE, bytes |-> Overlay(file.bytes, SubSeq(data, 1, k))]
    /\ pc' = [pc EXCEPT ![p] = "failed"]
    /\ UNCHANGED <<args, caller, lines, lines_backup, output_lines, stdout,
                   start, loaded, input, written, last_write, uses>>

\* File::open or read_to_string returns an error.
load_lines_fails(p) ==
    /\ pc[p] = "load"
    /\ pc' = [pc EXCEPT ![p] = "failed"]
    /\ UNCHANGED <<file, args, caller, lines, lines_backup, output_lines, stdout,
                   start, loaded, input, written, last_write, uses>>

\* The clock is before the epoch: duration_since fails and expect panics.
time_went_backwards(p) ==
    /\ pc[p] = "save"
    /\ args[p].value = "Timestamp"
    /\ lines[p] # <<>>
    /\ pc' = [pc EXCEPT ![p] = "failed"]
    /\ UNCHANGED <<file, args, caller, lines, lines_backup, output_lines, stdout,
                   start, loaded, input, written, last_write, uses>>

\* Invocations one after another, any of whose file operations may fail.
FaultNext ==
    \/ Step(1, AllArgs, StdinLines)
    \/ File_create_fails(1)
    \/ write_all_fails(1)
    \/ load_lines_fails(1)
    \/ time_went_backwards(1)

FaultSpec == Init /\ [][FaultNext]_vars

\* ------------------------------------------------- two invocations at once

\* The command lines of the two: a Save/Count, or an ascending Sort with
\* --cleanup.
RaceArgs ==
    {a \in AllArgs : \/ a.action = "Save" /\ a.value = "Count" /\ ~a.desc /\ ~a.cleanup
                     \/ a.action = "Sort" /\ a.value = "Count" /\ ~a.desc /\ a.cleanup}

\* The cache file is absent or holds a store earlier invocations left.
RaceInit ==
    \E f \in {NoFile} \cup {[exists |-> TRUE, bytes |-> to_string(m, AnOrder(m))] :
                              m \in Stores(Texts)} :
        /\ file = f
        /\ pc = [p \in Procs |-> "idle"]
        /\ args = [p \in Procs |-> NoArgs]
        /\ caller = [p \in Procs |-> "none"]
        /\ lines = [p \in Procs |-> <<>>]
        /\ lines_backup = [p \in Procs |-> EmptyMap]
        /\ output_lines = [p \in Procs |-> <<>>]
        /\ stdout = [p \in Procs |-> <<>>]
        /\ start = [p \in Procs |-> NoFile]
        /\ loaded = [p \in Procs |-> EmptyMap]
        /\ input = [p \in Procs |-> <<>>]
        /\ written = [p \in Procs |-> <<>>]
        /\ last_write = NoWrite
        /\ uses = EmptyMap

\* Each of the two invocations runs once, their steps interleaved at will.
RaceNext ==
    \E p \in Procs :
        \/ Start(p, RaceArgs)
        \/ get_lines_backup(p)
        \/ File_create(p)
        \/ write_all(p)
        \/ load_lines(p)
        \/ get_stdin_lines(p, StdinLines, MaxRaceLines)
        \/ sort(p)
        \/ cleanup(p)
        \/ update_first_stdin_line(p)
        \/ print_lines(p)

RaceSpec == RaceInit /\ [][RaceNext]_vars

\* ------------------------------------------------- direct calls of sort, save

\* main has loaded store m and read lines ls, and calls sort or save next:
\* any command line of A, any store over T, any input of at most
\* MaxCallLines lines over L.
CallInit(A, T, L) ==
    \E a \in A, m \in Stores(T), ls \in SeqsUpTo(L, MaxCallLines) :
        /\ file = [exists |-> TRUE, bytes |-> to_string(m, AnOrder(m))]
        /\ pc = [p \in Procs |-> IF p # 1 THEN "idle"
                                 ELSE IF a.action = "Sort" THEN "sort" ELSE "save"]
        /\ args = [p \in Procs |-> IF p = 1 THEN a ELSE NoArgs]
        /\ caller = [p \in Procs |-> "none"]
        /\ lines = [p \in Procs |-> IF p = 1 THEN ls ELSE <<>>]
        /\ lines_backup = [p \in Procs |-> IF p = 1 THEN m ELSE EmptyMap]
        /\ output_lines = [p \in Procs |-> <<>>]
        /\ stdout = [p \in Procs |-> <<>>]
        /\ start = [p \in Procs |-> IF p = 1 THEN file ELSE NoFile]
        /\ loaded = [p \in Procs |-> IF p = 1 THEN m ELSE EmptyMap]
        /\ input = [p \in Procs |-> IF p = 1 THEN ls ELSE <<>>]
        /\ written = [p \in Procs |-> <<>>]
        /\ last_write = [by |-> 0, map |-> m, bytes |-> file.bytes, onto |-> <<>>]
        /\ uses = m

SortArgs == {a \in AllArgs : a.action = "Sort" /\ a.value = "Count"}
SaveArgs == {a \in AllArgs : a.action = "Save" /\ ~a.desc /\ ~a.cleanup}

\* sort called on any store and input, run to the end of main.
RankInit == CallInit(SortArgs, RankTexts, RankTexts)

RankNext ==
    \/ sort(1)
    \/ cleanup(1)
    \/ File_create(1)
    \/ write_all(1)
    \/ print_lines(1)

RankSpec == RankInit /\ [][RankNext]_vars

\* save called on any store and input, the lines with or without their
\* terminators, run to the end of main.
UpdateInit == CallInit(SaveArgs, Texts, CallLines)

UpdateNext ==
    \/ update_first_stdin_line(1)
    \/ File_create(1)
    \/ write_all(1)
    \/ print_lines(1)

UpdateSpec == UpdateInit /\ [][UpdateNext]_vars

\* ================================================================= claims

\* What the claims speak of, stated apart from the model's own operators.

\* The score the claims give a line: its stored value, 0 when it has none.
ScoreOf(store, line) == IF line \in DOMAIN store THEN store[line] ELSE 0

\* How often x occurs in s.
Occurrences(s, x) == Cardinality({i \in DOMAIN s : s[i] = x})

IsPermutation(s, t) ==
    /\ Len(s) = Len(t)
    /\ \A x \in Range(s) \cup Range(t) : Occurrences(s, x) = Occurrences(t, x)

NonDecreasing(s, store) ==
    \A i, j \in DOMAIN s : i < j => ScoreOf(store, s[i]) <= ScoreOf(store, s[j])

\* The lines of s whose score is v, in the order s has them.
WithScore(s, store, v) ==
    LET Has(x) == ScoreOf(store, x) = v IN SelectSeq(s, Has)

\* out is the stable ascending sort of in: sorted, and for every score the
\* lines of that score are those of the input, in the input's order.
StableAscending(in, out, store) ==
    /\ IsPermutation(in, out)
    /\ NonDecreasing(out, store)
    /\ \A v \in {ScoreOf(store, x) : x \in Range(in)} :
          WithScore(out, store, v) = WithScore(in, store, v)

Returned(p) == pc[p] \in {"print", "done"}

\* C1: an ascending Sort returns the stable ascending sort of its input by
\* the loaded scores (absent = 0): a permutation that keeps every occurrence,
\* in non-decreasing order of score, ties in input order.
C1_AscendingStableSort ==
    \A p \in Procs :
        (Returned(p) /\ args[p].action = "Sort" /\ ~args[p].desc)
            => StableAscending(input[p], output_lines[p], loaded[p])

\* C1's case: three lines, the first two distinct and tied, and the sort
\* moved a line.
C1_Witness ==
    \E p \in Procs :
        /\ pc[p] = "done" /\ args[p].action = "Sort" /\ ~args[p].desc
        /\ Len(input[p]) = 3
        /\ input[p][1] # input[p][2]
        /\ ScoreOf(loaded[p], input[p][1]) = ScoreOf(loaded[p], input[p][2])
        /\ output_lines[p] # input[p]

\* A line without the one "\n" or "\r\n" that may end it.
WithoutTerminator(l) ==
    IF Len(l) >= 2 /\ l[Len(l) - 1] = CR /\ l[Len(l)] = LF THEN SubSeq(l, 1, Len(l) - 2)
    ELSE IF Len(l) >= 1 /\ l[Len(l)] = LF THEN SubSeq(l, 1, Len(l) - 1)
    ELSE l

\* update_first_stdin_line has returned to save.
Updated(p) ==
    /\ args[p].action = "Save"
    /\ \/ pc[p] \in {"print", "done"}
       \/ pc[p] \in {"create", "write"} /\ caller[p] = "save"

\* The store changed at key k only: k now has score v.
OnlyChanged(before, after, k, v) ==
    /\ DOMAIN after = (DOMAIN before) \cup {k}
    /\ after[k] = v
    /\ \A x \in (DOMAIN before) \ {k} : after[x] = before[x]

C3_CleanupKeepsExactlyRetained ==
    \A p \in Procs :
        (Returned(p) /\ args[p].action = "Sort" /\ args[p].cleanup)
            => LET R == output_lines[p]
               IN  /\ DOMAIN lines_backup[p] = Range(R)
                   /\ \A k \in (DOMAIN loaded[p]) \ Range(R) : k \notin DOMAIN lines_backup[p]
                   /\ \A k \in Range(R) :
                         lines_backup[p][k] = IF k \in DOMAIN loaded[p] THEN loaded[p][k] ELSE 0
                   /\ file.exists
                   /\ from_str(file.bytes) = [ok |-> TRUE, map |-> lines_backup[p]]

\* C3's case: one key evicted, one line new, one kept with its score, and a
\* line retained twice.
C3_Witness ==
    \E p \in Procs :
        /\ pc[p] = "done" /\ args[p].action = "Sort" /\ args[p].cleanup
        /\ (DOMAIN loaded[p]) \ Range(output_lines[p]) # {}
        /\ Range(output_lines[p]) \ (DOMAIN loaded[p]) # {}
        /\ \E k \in Range(output_lines[p]) :
              /\ k \in DOMAIN loaded[p] /\ loaded[p][k] > 0
              /\ Occurrences(output_lines[p], k) = 2

\* sort has ranked the lines.
Ranked(p) ==
    /\ args[p].action = "Sort"
    /\ \/ pc[p] \in {"cleanup", "print", "done"}
       \/ pc[p] \in {"create", "write"} /\ caller[p] = "cleanup"

\* C6: a descending Sort ranks the lines as the reverse of the ascending
\* ranking of the same input and store (so ties come in reverse input
\* order); cleanup is handed this sequence, and it is what sort returns.
C6_DescendingIsReverse ==
    \A p \in Procs :
        (Ranked(p) /\ args[p].desc)
            => /\ StableAscending(input[p], Reverse(lines[p]), loaded[p])
               /\ caller[p] = "cleanup" => lines_backup[p] = cleanup_map(loaded[p], lines[p])
               /\ Returned(p) => output_lines[p] = lines[p]

\* C6's case: descending with cleanup, two distinct tied lines and a line of
\* another score.
C6_Witness ==
    \E p \in Procs :
        /\ pc[p] = "done" /\ args[p].action = "Sort" /\ args[p].desc /\ args[p].cleanup
        /\ Len(input[p]) = 3
        /\ input[p][1] # input[p][2]
        /\ ScoreOf(loaded[p], input[p][1]) = ScoreOf(loaded[p], input[p][2])
        /\ ScoreOf(loaded[p], input[p][3]) > ScoreOf(loaded[p], input[p][1])
        /\ output_lines[p] = <<input[p][3], input[p][2], input[p][1]>>

\* The text of the empty store.
EmptyText == <<"{", "}">>

\* C4 as stated: after a Sort without --cleanup the store in memory is the
\* loaded one, nothing was persisted, and the file is as it was before.
C4_Original ==
    \A p \in Procs :
        (Returned(p) /\ args[p].action = "Sort" /\ ~args[p].cleanup)
            => /\ lines_backup[p] = loaded[p]
               /\ written[p] = <<>>
               /\ file = start[p]

\* C4, amended: the store in memory is the loaded one; a file that existed
\* is left as it was and nothing is persisted; a file that did not exist was
\* created by the initialisation, which persisted the empty store.
C4_SortWithoutCleanupReadOnly ==
    \A p \in Procs :
        (Returned(p) /\ args[p].action = "Sort" /\ ~args[p].cleanup)
            => /\ lines_backup[p] = loaded[p]
               /\ start[p].exists => (written[p] = <<>> /\ file = start[p])
               /\ ~start[p].exists =>
                     /\ written[p] = <<EmptyMap>>
                     /\ file = [exists |-> TRUE, bytes |-> EmptyText]

\* C4's case: a descending Sort without --cleanup on a file that held scores,
\* which moved a line.
C4_Witness ==
    \E p \in Procs :
        /\ pc[p] = "done" /\ args[p].action = "Sort" /\ ~args[p].cleanup /\ args[p].desc
        /\ start[p].exists
        /\ loaded[p] # EmptyMap
        /\ output_lines[p] # input[p]

\* Invocation p has loaded the store and persisted nothing since.
JustLoaded(p) == pc[p] \in {"stdin", "sort", "save", "cleanup"}

\* C5: the store an invocation loads is the mapping persisted last before
\* it, the empty mapping when there was no file; the initialisation writes
\* the empty store when the file is absent and leaves an existing file alone.
C5_LoadsWhatWasSaved ==
    \A p \in Procs :
        JustLoaded(p)
            => /\ start[p].exists =>
                     /\ loaded[p] = last_write.map
                     /\ written[p] = <<>>
                     /\ file = start[p]
               /\ ~start[p].exists =>
                     /\ loaded[p] = EmptyMap
                     /\ written[p] = <<EmptyMap>>
                     /\ file = [exists |-> TRUE, bytes |-> EmptyText]

\* C5's case: a store of two keys, one holding a timestamp of two digits, is
\* loaded from a file an earlier invocation wrote.
C5_Witness ==
    \E p \in Procs :
        /\ pc[p] = "stdin" /\ start[p].exists
        /\ Cardinality(DOMAIN loaded[p]) = 2
        /\ \E k \in DOMAIN loaded[p] : loaded[p][k] >= 10
        /\ \E k \in DOMAIN loaded[p] : loaded[p][k] \in 1..9

\* C7: update_first on an empty input returns no line and leaves the store
\* as loaded, for Count and for Timestamp; save still persists, so the file
\* then holds the loaded mapping, written by this invocation.
C7_EmptyInputSave ==
    \A p \in Procs :
        (Updated(p) /\ input[p] = <<>>)
            => /\ output_lines[p] = <<>>
               /\ lines_backup[p] = loaded[p]
               /\ Returned(p) =>
                     /\ written[p] # <<>>
                     /\ written[p][Len(written[p])] = loaded[p]
                     /\ last_write.by = p
                     /\ file.exists
                     /\ from_str(file.bytes) = [ok |-> TRUE, map |-> loaded[p]]

\* C7's case: Save/Timestamp with no input on a store that holds scores.
C7_Witness ==
    \E p \in Procs :
        /\ pc[p] = "done" /\ args[p].action = "Save" /\ args[p].value = "Timestamp"
        /\ input[p] = <<>>
        /\ Cardinality(DOMAIN loaded[p]) = 2
        /\ stdout[p] = <<>>

\* C10: with Save/Count and Sort invocations only, from an absent file, the
\* persisted score of every line after each invocation is the number of
\* Save/Count invocations it was the first line of since its last eviction.
C10_CountIsUsesSinceEviction ==
    (\A p \in Procs : pc[p] \in {"idle", "done"})
        => IF file.exists
           THEN LET r == from_str(file.bytes)
                IN  /\ r.ok
                    /\ \A l \in Texts : ScoreOf(r.map, l) = ScoreOf(uses, l)
           ELSE \A l \in Texts : ScoreOf(uses, l) = 0

\* C10's case: a cleanup has evicted a line that had MaxCount uses and
\* kept another with its count.
C10_Witness ==
    /\ pc[1] = "done" /\ args[1].action = "Sort" /\ args[1].cleanup
    /\ ScoreOf(loaded[1], <<"a">>) = MaxCount
    /\ ScoreOf(uses, <<"a">>) = 0
    /\ ScoreOf(loaded[1], <<"b", "b">>) = 1
    /\ from_str(file.bytes) = [ok |-> TRUE, map |-> (<<"b", "b">> :> 1)]

\* The file as invocation p found it was absent or held a whole mapping.
FoundWhole(p) == start[p].exists => from_str(start[p].bytes).ok

\* C8: a failure ends the invocation before a line is printed, and the file
\* then holds the whole mapping it held before (or is absent as before) or
\* the whole new mapping, never an empty or a cut text.
C8_FailureLeavesFileWhole ==
    \A p \in Procs :
        (pc[p] = "failed" /\ FoundWhole(p))
            => /\ stdout[p] = <<>>
               /\ IF file.exists
                  THEN LET r == from_str(file.bytes)
                       IN  /\ r.ok
                           /\ \/ start[p].exists /\ r.map = from_str(start[p].bytes).map
                              \/ ~start[p].exists /\ r.map = EmptyMap
                              \/ r.map = lines_backup[p]
                  ELSE ~start[p].exists

\* Both invocations have returned or failed.
BothFinished == \A p \in Procs : pc[p] \in {"done", "failed"}

\* s begins with t.
StartsWith(s, t) == Len(t) <= Len(s) /\ SubSeq(s, 1, Len(t)) = t

\* C9 as stated: once both invocations have finished, the file holds exactly
\* the complete mapping of the one that saved last.
C9_Original ==
    (BothFinished /\ last_write.by # 0)
        => /\ file.exists
           /\ file.bytes = last_write.bytes
           /\ from_str(file.bytes) = [ok |-> TRUE, map |-> last_write.map]

\* C9, amended: once both have finished, the file begins with the complete
\* text of the invocation that wrote last.  It is exactly that text, and
\* parses to that invocation's store, unless the other invocation wrote a
\* longer text after the last writer had truncated the file; then the rest of
\* the other's text follows and the file parses to no mapping.
C9_LastWriterOverwritesFromStart ==
    (BothFinished /\ last_write.by # 0)
        => LET w == last_write.by
               o == CHOOSE q \in Procs : q # w
           IN  /\ file.exists
               /\ written[w] # <<>>
               /\ written[w][Len(written[w])] = last_write.map
               /\ last_write.bytes \in {to_string(last_write.map, ord) :
                                           ord \in KeyOrders(DOMAIN last_write.map)}
               /\ StartsWith(file.bytes, last_write.bytes)
               /\ Len(file.bytes) = Len(last_write.bytes)
                     => from_str(file.bytes) = [ok |-> TRUE, map |-> last_write.map]
               /\ Len(file.bytes) > Len(last_write.bytes)
                     => /\ written[o] # <<>>
                        /\ \E ord \in KeyOrders(DOMAIN written[o][Len(written[o])]) :
                              file.bytes =
                                  Overlay(to_string(written[o][Len(written[o])], ord),
                                          last_write.bytes)
                        /\ ~from_str(file.bytes).ok

\* C9's case, the lost update: two Save/Count of the same line, both loaded
\* the same store, both returned, and the line's score went up by 1 only.
C9_Witness ==
    /\ \A p \in Procs :
          /\ pc[p] = "done" /\ args[p].action = "Save" /\ args[p].value = "Count"
          /\ input[p] = <<<<"a">>>>
          /\ loaded[p] = (<<"a">> :> 1 @@ <<"b", "b">> :> 0)
    /\ from_str(file.bytes) = [ok |-> TRUE, map |-> (<<"a">> :> 2 @@ <<"b", "b">> :> 0)]

=============================================================================
